---------------------------- MODULE Spec2Model ----------------------------
(***************************************************************************)
(* A model of modbus-core: the stream framer RecvBuffer<P>                 *)
(* (src/src/recv_buffer.rs), the TCP MODBUS protocol contract TcpModbus    *)
(* (src/src/protocols/mod.rs) and the coil packing functions               *)
(* (src/src/bit_pack.rs).                                                  *)
(*                                                                         *)
(* Bytes are integers 0..255, slices are sequences (Rust index i is TLA+   *)
(* index i + 1).  A Result is a record [ok, err, val]; an Option is a      *)
(* record [some, v].  A RecvBuffer is a record [raw_buffer, size_used,     *)
(* contains_complete]; raw_buffer holds the bytes raw_buffer[..size_used]  *)
(* of the array, the only bytes any method reads (buffer(), the one reader *)
(* of the array, returns that prefix and add_data overwrites a position    *)
(* before size_used moves past it).  A panic is the error "Panic".         *)
(*                                                                         *)
(* The crate compiles the TcpModbus of the inline module tcp_modbus of     *)
(* protocols/mod.rs: its adu_length adds MBAP_LENGTH and has no maximum,   *)
(* its adu_check asks for one byte more than the ADU (inline_adu_length,   *)
(* inline_adu_check, inline_pdu_body below; adu_header and the field       *)
(* readers).  RecvBuffer<TcpModbus> is the framer over these functions.    *)
(* The file protocols/tcp_modbus.rs, which the inline module shadows and   *)
(* the crate does not compile, has a later TcpModbus that adds 6, checks   *)
(* the maximum and accepts a window of the ADU length: adu_length,         *)
(* adu_check and pdu_body below, applied to windows in SpecProto only.     *)
(*                                                                         *)
(* Where the debug and the release build differ (debug_assert!, overflow   *)
(* of a usize subtraction), process takes the build as a parameter and     *)
(* the specifications of the framer run under either build.                *)
(*                                                                         *)
(* Five specifications share the variables: Spec (the framer under any     *)
(* input), SpecStream (a caller delivering valid ADUs), SpecContract (the  *)
(* framer over any protocol contract), SpecProto (the TcpModbus functions  *)
(* on their own) and SpecCoils (bytes_needed, pack_coils, unpack_coils).   *)
(***************************************************************************)
EXTENDS Integers, Sequences, FiniteSets, TLC

VARIABLES
    buf,        \* the RecvBuffer<TcpModbus> under test
    data,       \* the argument of the last process call
    ret,        \* what the last process call returned
    entry,      \* the RecvBuffer as the last process call found it
    locals,     \* original_buffer_size and length_to_add of the last call
    build,      \* the build of the crate: debug or release
    fresh,      \* a second RecvBuffer, made by new() for comparison
    fresh_ret,  \* what the last process call on fresh returned
    fresh_on,   \* fresh is in use
    adus,       \* the ADUs of the stream a caller delivers
    pos,        \* how many bytes of the stream the caller has handed over
    packets,    \* the (header, pdu) of every Ok return so far, in order
    mode,       \* how the caller has cut the stream so far
    contract,   \* the protocol contract P of the last process call
    window,     \* the slice last passed to the TcpModbus functions
    results,    \* what the TcpModbus functions returned for window
    coils,      \* the coils passed to pack_coils
    prior,      \* the destination bytes before pack_coils
    bytes,      \* the destination bytes of pack_coils, source of unpack_coils
    unpacked,   \* the coils written by unpack_coils
    needed,     \* what bytes_needed returned for the number of coils
    stage       \* how far the pack/unpack round trip has got

vars == <<buf, data, ret, entry, locals, build, fresh, fresh_ret, fresh_on,
          adus, pos, packets, mode, contract, window, results,
          coils, prior, bytes, unpacked, needed, stage>>

streamVars == <<adus, pos, packets, mode>>

protoVars == <<window, results>>

coilVars == <<coils, prior, bytes, unpacked, needed, stage>>

---------------------------------------------------------------------------
(* Bounds of the check *)

\* longest input chunk drawn freely over ByteVals
MaxChunk == 3

\* byte values of the freely drawn chunks: with them a declared length is
\* 0 (no unit id), 1 (an empty payload) or at least 256 (over the maximum)
ByteVals == {0, 1}

\* most bytes the freely drawn chunks bring the buffer to
MaxAssembled == 8

\* most bytes held when a message, an oversize chunk or a chunk for an
\* answering contract is passed in
MaxHeld == 3

---------------------------------------------------------------------------
(* Helpers *)

Min(a, b) == IF a < b THEN a ELSE b

Fill(b, n) == [i \in 1..n |-> b]

\* data[from..] of Rust, from a 0-based index
SliceFrom(s, from) == SubSeq(s, from + 1, Len(s))

\* data[..to] of Rust
SliceTo(s, to) == SubSeq(s, 1, to)

SeqsUpTo(S, n) == UNION {[1..k -> S] : k \in 0..n}

Ok(v) == [ok |-> TRUE, err |-> "None", val |-> v]

Err(e) == [ok |-> FALSE, err |-> e, val |-> 0]

Some(x) == [some |-> TRUE, v |-> x]

None == [some |-> FALSE, v |-> 0]

\* the bytes 4..5 of s as a big-endian number, when s has them
Declared(s) == s[5] * 256 + s[6]

---------------------------------------------------------------------------
(* TcpModbus: the field readers and adu_header, the same in                *)
(* src/src/protocols/mod.rs and src/src/protocols/tcp_modbus.rs, and the   *)
(* adu_length, adu_check and pdu_body of src/src/protocols/tcp_modbus.rs   *)

MBAP_LENGTH == 7

EXCLUDED_LENGTH == 6

ADU_MAX_LENGTH == 260

RTU_ADU_MAX_LENGTH == 256

\* the two bytes read low byte first
from_le_bytes(hi, lo) == lo * 256 + hi

\* u16::from_be_bytes([hi, lo])
from_be_bytes(hi, lo) == hi * 256 + lo

\* data.get(i) with a 0-based i
get(d, i) == IF i < Len(d) THEN Some(d[i + 1]) ELSE None

protocol_id(d) ==
    IF get(d, 2).some /\ get(d, 3).some
    THEN Some(from_be_bytes(get(d, 2).v, get(d, 3).v))
    ELSE None

transaction_id(d) ==
    IF get(d, 0).some /\ get(d, 1).some
    THEN Some(from_be_bytes(get(d, 0).v, get(d, 1).v))
    ELSE None

length(d) ==
    IF get(d, 4).some /\ get(d, 5).some
    THEN Some(from_be_bytes(get(d, 4).v, get(d, 5).v))
    ELSE None

unit_id(d) == get(d, 6)

adu_length(d) ==
    IF ~length(d).some THEN Err("NotEnoughData")
    ELSE LET adu_len == length(d).v + EXCLUDED_LENGTH
         IN  IF adu_len <= ADU_MAX_LENGTH THEN Ok(adu_len) ELSE Err("BadLength")

TcpModbusHeader(t, p, l, u) ==
    [transaction_id |-> t, protocol_id |-> p, length |-> l, unit_id |-> u]

adu_header(d) ==
    IF ~transaction_id(d).some THEN Err("NotEnoughData")
    ELSE IF ~protocol_id(d).some THEN Err("NotEnoughData")
    ELSE IF ~length(d).some THEN Err("NotEnoughData")
    ELSE IF ~unit_id(d).some THEN Err("NotEnoughData")
    ELSE Ok(TcpModbusHeader(transaction_id(d).v, protocol_id(d).v,
                            length(d).v, unit_id(d).v))

adu_check(d) ==
    IF ~adu_length(d).ok THEN Err(adu_length(d).err)
    ELSE IF Len(d) >= adu_length(d).val THEN Ok(0)
    ELSE Err("NotEnoughData")

\* &data[MBAP_LENGTH..] panics when the window is shorter than MBAP_LENGTH
pdu_body(d) ==
    IF ~adu_check(d).ok THEN Err(adu_check(d).err)
    ELSE IF MBAP_LENGTH > Len(d) THEN Err("Panic")
    ELSE Ok(SliceFrom(d, MBAP_LENGTH))

---------------------------------------------------------------------------
(* The inline module tcp_modbus of src/src/protocols/mod.rs, the one the   *)
(* crate compiles: the functions of its TcpModbus that differ from those   *)
(* of protocols/tcp_modbus.rs                                              *)

\* adu_length answering the length field alone
inline_adu_length_field(d) ==
    IF ~length(d).some THEN Err("NotEnoughData")
    ELSE Ok(length(d).v)

inline_adu_length(d) ==
    IF ~length(d).some THEN Err("NotEnoughData")
    ELSE Ok(length(d).v + MBAP_LENGTH)

\* adu_check content with any window that holds the length field
inline_adu_check_any(d) ==
    IF ~inline_adu_length(d).ok THEN Err(inline_adu_length(d).err)
    ELSE Ok(0)

inline_adu_check(d) ==
    IF ~inline_adu_length(d).ok THEN Err(inline_adu_length(d).err)
    ELSE IF Len(d) > inline_adu_length(d).val THEN Ok(0)
    ELSE Err("NotEnoughData")

\* &data[MBAP_LENGTH..] panics when the window is shorter than MBAP_LENGTH
inline_pdu_body(d) ==
    IF ~inline_adu_check(d).ok THEN Err(inline_adu_check(d).err)
    ELSE IF MBAP_LENGTH > Len(d) THEN Err("Panic")
    ELSE Ok(SliceFrom(d, MBAP_LENGTH))

---------------------------------------------------------------------------
(* Coil packing: src/src/bit_pack.rs.  A Coil is "On" or "Off"; a u8 is an *)
(* integer 0..255 and its bit k is (byte \div 2^k) % 2.  A function that   *)
(* writes through a &mut slice returns the slice afterwards and whether it *)
(* panicked.                                                               *)

COILS_PER_BYTE == 8

\* enum Coil
Coil == {"On", "Off"}

\* bytes_needed rounding down
bytes_needed_floor(n) == n \div COILS_PER_BYTE

bytes_needed(n) == (n + COILS_PER_BYTE - 1) \div COILS_PER_BYTE

\* 1 << bit_index, as u8
bit_flag(bit_index) == 2 ^ bit_index

\* byte & flag, for a flag of one bit
BitAnd(byte, flag) == IF (byte \div flag) % 2 = 1 THEN flag ELSE 0

\* byte | flag
BitOr(byte, flag) == byte + flag - BitAnd(byte, flag)

\* byte & !flag
BitAndNot(byte, flag) == byte - BitAnd(byte, flag)

Written(b, panicked) == [bytes |-> b, panic |-> panicked]

\* the loop over coils.iter().enumerate() of pack_coils, from coil_index
\* on; bs is the slice bytes[..bytes_needed(coils.len())]
RECURSIVE pack_loop(_, _, _)
pack_loop(cs, bs, coil_index) ==
    IF coil_index >= Len(cs) THEN bs
    ELSE LET byte_index == coil_index \div COILS_PER_BYTE
             bit_index == coil_index % COILS_PER_BYTE
             flag == bit_flag(bit_index)
             byte == bs[byte_index + 1]
         IN  pack_loop(cs,
                       [bs EXCEPT ![byte_index + 1] =
                           IF cs[coil_index + 1] = "On"
                           THEN BitOr(byte, flag)
                           ELSE BitAndNot(byte, flag)],
                       coil_index + 1)

\* pack_coils without zeroing the output range
pack_coils_nozero(cs, bs) ==
    LET n == bytes_needed(Len(cs))
    IN  IF n > Len(bs) THEN Written(bs, TRUE)
        ELSE Written(pack_loop(cs, SliceTo(bs, n), 0) \o SliceFrom(bs, n), FALSE)

\* &mut bytes[..n] panics when the slice is shorter than n
pack_coils(cs, bs) ==
    LET n == bytes_needed(Len(cs))
    IN  IF n > Len(bs) THEN Written(bs, TRUE)
        ELSE Written(pack_loop(cs, Fill(0, n), 0) \o SliceFrom(bs, n), FALSE)

Read(cs, panicked) == [coils |-> cs, panic |-> panicked]

\* the loop over coils.iter_mut().enumerate() of unpack_coils, from
\* coil_index on; bytes[byte_index] panics past the end of the slice
RECURSIVE unpack_loop(_, _, _)
unpack_loop(bs, cs, coil_index) ==
    IF coil_index >= Len(cs) THEN Read(cs, FALSE)
    ELSE LET byte_index == coil_index \div COILS_PER_BYTE
             bit_index == coil_index % COILS_PER_BYTE
             flag == bit_flag(bit_index)
         IN  IF byte_index >= Len(bs) THEN Read(cs, TRUE)
             ELSE unpack_loop(bs,
                              [cs EXCEPT ![coil_index + 1] =
                                  IF BitAnd(bs[byte_index + 1], flag) = 0
                                  THEN "Off" ELSE "On"],
                              coil_index + 1)

\* unpack_coils reading every byte from bit 0 only
unpack_coils_bit0(bs, cs) ==
    IF bytes_needed(Len(cs)) > Len(bs) THEN Read(cs, TRUE)
    ELSE Read([i \in 1..Len(cs) |->
                 IF BitAnd(bs[(i - 1) \div COILS_PER_BYTE + 1], bit_flag(0)) = 0
                 THEN "Off" ELSE "On"], FALSE)

unpack_coils(bs, cs) == unpack_loop(bs, cs, 0)

---------------------------------------------------------------------------
(* RecvBuffer: src/src/recv_buffer.rs *)

const_max(a, b) == IF a < b THEN b ELSE a

BUFFER_LEN == const_max(ADU_MAX_LENGTH, RTU_ADU_MAX_LENGTH)

new == [raw_buffer |-> <<>>, size_used |-> 0, contains_complete |-> FALSE]

used(self) == self.size_used

buffer(self) == SliceTo(self.raw_buffer, self.size_used)

\* debug_assert!(self.size_used < self.raw_buffer.len()) of space_left
space_left_debug_assert(self) == self.size_used < BUFFER_LEN

\* the two debug_assert! of trim_to
trim_to_debug_assert(self, len) ==
    /\ len <= self.size_used
    /\ self.size_used <= BUFFER_LEN

\* space_left forgetting the bytes in use
space_left_whole(self) == BUFFER_LEN

space_left(self) == BUFFER_LEN - self.size_used

\* called with size_used + Len(d) <= BUFFER_LEN; process panics otherwise
add_data(self, d) ==
    [self EXCEPT !.raw_buffer = buffer(self) \o d,
                 !.size_used = self.size_used + Len(d)]

\* clear_buffer leaving the cursor where it is
clear_buffer_keep(self) == self

clear_buffer(self) ==
    [self EXCEPT !.raw_buffer = <<>>, !.size_used = 0]

\* trim_to leaving the cursor where it is
trim_to_keep(self, len) == self

trim_to(self, len) ==
    [self EXCEPT !.raw_buffer = SliceTo(self.raw_buffer, len),
                 !.size_used = len]

NoHeader == TcpModbusHeader(0, 0, 0, 0)

\* what process returns: Ok((Packet {header, pdu}, leftover)) or Err(kind)
RetOk(h, p, rest) == [kind |-> "Ok", header |-> h, pdu |-> p, leftover |-> rest]

RetErr(e) == [kind |-> e, header |-> NoHeader, pdu |-> <<>>, leftover |-> <<>>]

NoRet == RetErr("None")

Locals(o, a) == [original_buffer_size |-> o, length_to_add |-> a]

Outcome(self, r, o, a) == [self |-> self, ret |-> r, locals |-> Locals(o, a)]

\* The type parameter P: ModbusProtocol of RecvBuffer<P>.  It is either
\* TcpModbus, the one the crate compiles, or a contract given by what its
\* functions return during one process call: any Result the signatures of
\* the trait allow.
TcpModbus == [name |-> "TcpModbus", adu_length |-> Err("None"),
              adu_header |-> Err("None"), pdu_body |-> Err("None")]

Answers(l, h, p) ==
    [name |-> "Answers", adu_length |-> l, adu_header |-> h, pdu_body |-> p]

\* P::adu_length(data)
P_adu_length(P, d) ==
    IF P.name = "TcpModbus" THEN inline_adu_length(d) ELSE P.adu_length

\* P::adu_header(data); the header of an answering contract is opaque
P_adu_header(P, d) ==
    IF P.name = "TcpModbus" THEN adu_header(d)
    ELSE IF P.adu_header.ok THEN Ok(NoHeader) ELSE P.adu_header

\* P::pdu_body(data); the payload of an answering contract is the window
P_pdu_body(P, d) ==
    IF P.name = "TcpModbus" THEN inline_pdu_body(d)
    ELSE IF P.pdu_body.ok THEN Ok(d) ELSE P.pdu_body

\* the first statement of process clearing the flag alone
Entered_keep(self) == [self EXCEPT !.contains_complete = FALSE]

\* the first statement of process: a buffer that holds a message already
\* returned is cleared, and so is the flag
Entered(self) ==
    IF self.contains_complete
    THEN [clear_buffer(self) EXCEPT !.contains_complete = FALSE]
    ELSE self

\* the builds of the crate: debug_assert! is checked and an overflowing
\* usize subtraction panics in the debug build; the release build drops
\* the assertion and wraps the subtraction
Builds == {"debug", "release"}

\* RecvBuffer<P>::process(&mut self, data) in build b: the buffer after
\* the call, the value returned and the locals original_buffer_size and
\* length_to_add.  A panic leaves the buffer as the statements before it
\* left it.
process_P(self, d, P, b) ==
    LET s1 == Entered(self)
        original_buffer_size == used(s1)
        length_to_add == Min(space_left(s1), Len(d))
        s2 == add_data(s1, SliceTo(d, length_to_add))
        al == P_adu_length(P, buffer(s2))
    IN  IF b = "debug" /\ ~space_left_debug_assert(s1)
        THEN \* the debug_assert! of space_left
             Outcome(s1, RetErr("Panic"), original_buffer_size, 0)
        ELSE IF original_buffer_size + length_to_add > BUFFER_LEN
        THEN \* add_data: the slice of raw_buffer is out of range
             Outcome(s1, RetErr("Panic"), original_buffer_size, length_to_add)
        ELSE IF ~al.ok /\ al.err = "NotEnoughData"
        THEN Outcome(s2, RetErr("NotEnoughData"), original_buffer_size, length_to_add)
        ELSE IF ~al.ok
        THEN Outcome(clear_buffer(s2), RetErr(al.err), original_buffer_size, length_to_add)
        ELSE IF used(s2) < al.val
        THEN Outcome(s2, RetErr("NotEnoughData"), original_buffer_size, length_to_add)
        ELSE IF b = "debug" /\ al.val < original_buffer_size
        THEN \* adu_length - original_buffer_size: attempt to subtract with
             \* overflow
             Outcome(s2, RetErr("Panic"), original_buffer_size, length_to_add)
        ELSE LET \* a negative difference stands for what the release
                 \* build wraps it to, 2^64 less the deficit: an index
                 \* past the end of every slice
                 remaining_data_index == al.val - original_buffer_size
                 complete == [s2 EXCEPT !.contains_complete = TRUE]
                 s3 == trim_to(complete, al.val)
                 h == P_adu_header(P, buffer(s3))
                 p == P_pdu_body(P, buffer(s3))
             IN  IF b = "debug" /\ ~trim_to_debug_assert(complete, al.val)
                 THEN \* the debug_assert! of trim_to
                      Outcome(complete, RetErr("Panic"), original_buffer_size, length_to_add)
                 ELSE IF ~h.ok
                 THEN Outcome(s3, RetErr(h.err), original_buffer_size, length_to_add)
                 ELSE IF ~p.ok
                 THEN Outcome(s3, RetErr(p.err), original_buffer_size, length_to_add)
                 ELSE IF remaining_data_index < 0 \/ remaining_data_index > Len(d)
                 THEN \* &data[remaining_data_index..] out of range
                      Outcome(s3, RetErr("Panic"), original_buffer_size, length_to_add)
                 ELSE Outcome(s3, RetOk(h.val, p.val, SliceFrom(d, remaining_data_index)),
                              original_buffer_size, length_to_add)

\* RecvBuffer<TcpModbus>::process
process(self, d, b) == process_P(self, d, TcpModbus, b)

---------------------------------------------------------------------------
(* Inputs *)

\* the example ADU of the specification: transaction 1, protocol 0,
\* declared length 3, unit 9, payload AA BB
ADU_EXAMPLE == <<0, 1, 0, 0, 0, 3, 9, 170, 187>>

\* an ADU with an empty payload (declared length 1)
ADU_EMPTY_PDU == <<0, 2, 0, 0, 0, 1, 5>>

\* an ADU of the maximum length: declared length 254
ADU_MAX == <<0, 3, 0, 0, 0, 254>> \o Fill(7, ADU_MAX_LENGTH - EXCLUDED_LENGTH)

FreeChunks == SeqsUpTo(ByteVals, MaxChunk)

MessageChunks ==
    { ADU_EXAMPLE,
      ADU_EMPTY_PDU \o ADU_EXAMPLE,
      ADU_MAX,
      SliceTo(ADU_MAX, ADU_MAX_LENGTH - 1),
      <<0, 0, 0, 0, 0, 255>> }

\* chunks longer than the buffer
OversizeChunks ==
    { ADU_MAX \o <<0, 1>>,
      ADU_EXAMPLE \o Fill(1, BUFFER_LEN),
      Fill(0, BUFFER_LEN + 1),
      <<0, 0, 0, 0, 1, 0>> \o Fill(3, BUFFER_LEN) }

---------------------------------------------------------------------------
(* The framer under arbitrary input: one process call per step, in either  *)
(* build.                                                                  *)

\* nothing has been passed to the TcpModbus functions on their own
NoResults ==
    [adu_length |-> Err("None"), adu_header |-> Err("None"),
     adu_check |-> Err("None"), pdu_body |-> Err("None"),
     inline_adu_length |-> Err("None"), inline_adu_check |-> Err("None"),
     inline_pdu_body |-> Err("None")]

NoWindow == window = <<>> /\ results = NoResults

NoCoils ==
    /\ coils = <<>>
    /\ prior = <<>>
    /\ bytes = <<>>
    /\ unpacked = <<>>
    /\ needed = 0
    /\ stage = "none"

Init ==
    /\ buf = new
    /\ data = <<>>
    /\ ret = NoRet
    /\ entry = new
    /\ locals = Locals(0, 0)
    /\ build \in Builds
    /\ fresh = new
    /\ fresh_ret = NoRet
    /\ fresh_on = FALSE
    /\ adus = <<>>
    /\ pos = 0
    /\ packets = <<>>
    /\ mode = "none"
    /\ contract = TcpModbus
    /\ NoWindow
    /\ NoCoils

\* the bytes in the middle of assembly in self
Held(self) == used(Entered(self))

Call(d) ==
    LET out == process(buf, d, build)
    IN  /\ buf' = out.self
        /\ ret' = out.ret
        /\ locals' = out.locals
        /\ entry' = buf
        /\ data' = d
        /\ UNCHANGED <<build, fresh, fresh_ret, fresh_on, streamVars, contract,
                       protoVars, coilVars>>

ProcessFree ==
    \E d \in FreeChunks :
        /\ Held(buf) + Len(d) <= MaxAssembled \/ Held(buf) = BUFFER_LEN
        /\ Call(d)

ProcessMessage ==
    \E d \in MessageChunks :
        /\ Held(buf) <= MaxHeld
        /\ Call(d)

ProcessOversize ==
    \E d \in OversizeChunks :
        /\ Held(buf) <= MaxHeld
        /\ Call(d)

Next == ProcessFree \/ ProcessMessage \/ ProcessOversize

Spec == Init /\ [][Next]_vars

---------------------------------------------------------------------------
(* A caller delivering a stream of valid ADUs: the stream is cut into      *)
(* chunks at any positions, each chunk is passed to process, and a         *)
(* leftover returned with a packet is passed to process again before the   *)
(* next chunk is cut (the loop of the tests tcp_four_adus_chunked,         *)
(* tcp_four_adus_straight_through and tcp_four_adus_byte_by_byte).         *)

\* most ADUs in a stream
MaxADUs == 4

\* longest chunk cut from the middle of a stream; the rest of the stream
\* can always be passed whole
MaxCut == 10

RECURSIVE Concat(_)
Concat(ss) == IF ss = <<>> THEN <<>> ELSE Head(ss) \o Concat(Tail(ss))

SmallADUs == {ADU_EXAMPLE, ADU_EMPTY_PDU}

\* a stream longer than the buffer
LongStream == <<ADU_EXAMPLE, ADU_MAX, ADU_EMPTY_PDU>>

Streams == UNION {[1..k -> SmallADUs] : k \in 1..MaxADUs} \cup {LongStream}

Stream == Concat(adus)

\* the end of the j-th ADU in the stream
Bound(j) == Len(Concat(SubSeq(adus, 1, j)))

CutSizes(rest) == (1..Min(rest, MaxCut)) \cup {rest}

InitStream ==
    /\ buf = new
    /\ data = <<>>
    /\ ret = NoRet
    /\ entry = new
    /\ locals = Locals(0, 0)
    /\ build \in Builds
    /\ fresh = new
    /\ fresh_ret = NoRet
    /\ fresh_on = FALSE
    /\ adus \in Streams
    /\ pos = 0
    /\ packets = <<>>
    /\ mode = "start"
    /\ contract = TcpModbus
    /\ NoWindow
    /\ NoCoils

Deliver(d) ==
    LET out == process(buf, d, build)
    IN  /\ buf' = out.self
        /\ ret' = out.ret
        /\ packets' = IF out.ret.kind = "Ok"
                      THEN Append(packets, [header |-> out.ret.header, pdu |-> out.ret.pdu])
                      ELSE packets
        /\ UNCHANGED <<data, entry, locals, build, fresh, fresh_ret, fresh_on,
                       adus, contract, protoVars, coilVars>>

\* one pass of the caller's loop: the leftover of an Ok return that left
\* one, or else the next n bytes of the stream
Feed ==
    IF ret.kind = "Ok" /\ ret.leftover # <<>>
    THEN /\ Deliver(ret.leftover)
         /\ pos' = pos
         /\ mode' = IF mode = "bulk" THEN "bulk" ELSE "mixed"
    ELSE /\ pos < Len(Stream)
         /\ \E n \in CutSizes(Len(Stream) - pos) :
               /\ Deliver(SubSeq(Stream, pos + 1, pos + n))
               /\ pos' = pos + n
               /\ mode' = IF mode = "start" /\ n = Len(Stream) THEN "bulk"
                          ELSE IF mode \in {"start", "bytewise"} /\ n = 1 THEN "bytewise"
                          ELSE "mixed"

NextStream == Feed

SpecStream == InitStream /\ [][NextStream]_vars

---------------------------------------------------------------------------
(* What a caller expects of an ADU, read off the wire format: bytes 0..1   *)
(* transaction id, 2..3 protocol id, 4..5 declared length, 6 unit id, all  *)
(* big-endian, then the payload.                                           *)

Decoded(a) ==
    [header |-> [transaction_id |-> a[1] * 256 + a[2],
                 protocol_id |-> a[3] * 256 + a[4],
                 length |-> a[5] * 256 + a[6],
                 unit_id |-> a[7]],
     pdu |-> SubSeq(a, 8, Len(a))]

\* the value process returns for ADU a followed by the bytes rest
Returned(a, rest) ==
    [kind |-> "Ok", header |-> Decoded(a).header, pdu |-> Decoded(a).pdu,
     leftover |-> rest]

\* the stream bytes the framer has taken: those handed over, less a
\* leftover handed back and not yet passed in again
Taken == pos - (IF ret.kind = "Ok" THEN Len(ret.leftover) ELSE 0)

\* C1: for a stream of valid ADUs cut at any positions, with every leftover
\* passed in again before the next chunk, the packets of the Ok returns are
\* the ADUs of the stream in order, one for each ADU whose last byte the
\* framer has taken (none lost, none twice), an Ok return ends exactly at
\* an ADU boundary, and every other call returns NotEnoughData.
C1_StreamDecodesInOrder ==
    /\ ret.kind \in {"None", "Ok", "NotEnoughData"}
    /\ Len(packets) <= Len(adus)
    /\ \A i \in 1..Len(packets) : packets[i] = Decoded(adus[i])
    /\ Len(packets) = Cardinality({j \in 1..Len(adus) : Bound(j) <= Taken})
    /\ ret.kind = "Ok" => Taken = Bound(Len(packets))

\* C2: delivered one byte per call, every call returns NotEnoughData except
\* the call that passes the last byte of an ADU, which returns that ADU's
\* header and payload with an empty leftover; so for each ADU of the stream.
C2_ByteByByte ==
    mode = "bytewise" =>
        IF \E j \in 1..Len(adus) : pos = Bound(j)
        THEN \E j \in 1..Len(adus) :
                /\ pos = Bound(j)
                /\ ret = Returned(adus[j], <<>>)
                /\ Len(packets) = j
        ELSE ret.kind = "NotEnoughData"

\* C3: the whole stream of k ADUs passed in one call returns the first ADU
\* and the other k - 1 ADUs as leftover, and each call on the last leftover
\* returns the next ADU and the rest, until the leftover is empty after
\* the k-th call.
C3_BulkPeelsOnePerCall ==
    mode = "bulk" =>
        /\ Len(packets) \in 1..Len(adus)
        /\ ret = Returned(adus[Len(packets)], SliceFrom(Stream, Bound(Len(packets))))
        /\ (ret.leftover = <<>>) <=> (Len(packets) = Len(adus))

---------------------------------------------------------------------------
(* Claims about single process calls, under Spec *)

\* the bytes in the middle of assembly when the last call was entered:
\* none when the buffer held a message already returned
MidAssembly == IF entry.contains_complete THEN <<>> ELSE buffer(entry)

\* the buffer as the last call saw it after the complete flag had been
\* dealt with: what space_left runs on
AfterEntry == Entered(entry)

\* the buffer of the last call after add_data: what trim_to runs on
AfterAdd == add_data(AfterEntry, SliceTo(data, locals.length_to_add))

\* d is exactly one ADU that fits the maximum length
IsWholeADU(d) ==
    /\ Len(d) >= MBAP_LENGTH
    /\ Len(d) = Declared(d) + EXCLUDED_LENGTH
    /\ Len(d) <= ADU_MAX_LENGTH

\* C4: whenever process returns NotEnoughData, the buffer holds the bytes
\* that were in the middle of assembly before the call followed by the
\* bytes of the chunk, so used() has grown by the length of the chunk.
C4_NotEnoughDataRetains ==
    ret.kind = "NotEnoughData" =>
        /\ buffer(buf) = MidAssembly \o data
        /\ used(buf) = Len(MidAssembly) + Len(data)

\* C5: when the bytes buffered before the call and the chunk together carry
\* a declared length whose ADU length is over 260, process returns
\* BadLength and the framer is empty: used() = 0, complete flag false.
C5_BadLengthEmpties ==
    LET all == MidAssembly \o data
    IN  (Len(all) >= EXCLUDED_LENGTH /\ Declared(all) + EXCLUDED_LENGTH > ADU_MAX_LENGTH)
        => /\ ret.kind = "BadLength"
           /\ used(buf) = 0
           /\ ~buf.contains_complete

\* C7: size_used never exceeds the capacity of the buffer, whatever the
\* chunks, chunks longer than the buffer included: neither between calls
\* nor as the value add_data moves the cursor to within a call.
C7_UsedWithinCapacity ==
    /\ buf.size_used <= BUFFER_LEN
    /\ locals.original_buffer_size + locals.length_to_add <= BUFFER_LEN

C7_Witness ==
    /\ buf.size_used = BUFFER_LEN
    /\ Len(data) > BUFFER_LEN
    /\ used(entry) > 0
    /\ ~entry.contains_complete

\* C8: between calls, contains_complete is true exactly when the buffered
\* bytes hold a complete ADU, and then the first used() bytes are that one
\* ADU: used() is the ADU length computed from them and the header and the
\* payload can be extracted from them.
C8_CompleteFlagMeansValidADU ==
    /\ buf.contains_complete =>
          /\ P_adu_length(TcpModbus, buffer(buf)) = Ok(used(buf))
          /\ P_adu_header(TcpModbus, buffer(buf)).ok
          /\ P_pdu_body(TcpModbus, buffer(buf)).ok
    /\ (/\ P_adu_length(TcpModbus, buffer(buf)).ok
        /\ used(buf) >= P_adu_length(TcpModbus, buffer(buf)).val) =>
          /\ buf.contains_complete
          /\ P_adu_length(TcpModbus, buffer(buf)) = Ok(used(buf))

\* C10: a call entered with the complete flag set sees only its own input:
\* the buffer afterwards holds bytes of the chunk alone, an empty chunk
\* returns NotEnoughData with used() = 0, and a chunk that is one whole
\* ADU returns that ADU with an empty leftover.
C10_CompleteIsClearedOnEntry ==
    entry.contains_complete =>
        /\ used(buf) <= Len(data)
        /\ buffer(buf) = SliceTo(data, used(buf))
        /\ data = <<>> =>
              (ret.kind = "NotEnoughData" /\ used(buf) = 0 /\ ~buf.contains_complete)
        /\ IsWholeADU(data) => ret = Returned(data, <<>>)

---------------------------------------------------------------------------
(* The framer over any protocol contract: RecvBuffer<P> where each call    *)
(* of process gets from P::adu_length, P::adu_header and P::pdu_body any   *)
(* Result the trait ModbusProtocol allows, in either build.  Once a call   *)
(* has returned BadLength, a second RecvBuffer made by new() is passed the *)
(* same chunks and gets the same answers of the contract.                  *)

\* longest ADU an answering contract declares
MaxDeclared == 3

\* enum ModbusError
ModbusError == {"BadFuncCode", "BadErrorCheck", "BadLength", "NotEnoughData"}

\* the answers of one call: a function process calls only after another
\* has returned Ok has an answer only then
Contracts ==
    { Answers(Err(e), Ok(0), Ok(0)) : e \in ModbusError }
    \cup { Answers(Ok(n), Err(e), Ok(0)) : n \in 0..MaxDeclared, e \in ModbusError }
    \cup { Answers(Ok(n), Ok(0), Err(e)) : n \in 0..MaxDeclared, e \in ModbusError }
    \cup { Answers(Ok(n), Ok(0), Ok(0)) : n \in 0..MaxDeclared }

\* chunks whose bytes tell their position
ContractChunks == { [i \in 1..n |-> i] : n \in 0..MaxChunk }

\* a chunk longer than the buffer
ContractOversize == [i \in 1..(BUFFER_LEN + 1) |-> i % 256]

InitContract ==
    /\ buf = new
    /\ data = <<>>
    /\ ret = NoRet
    /\ entry = new
    /\ locals = Locals(0, 0)
    /\ build \in Builds
    /\ fresh = new
    /\ fresh_ret = NoRet
    /\ fresh_on = FALSE
    /\ adus = <<>>
    /\ pos = 0
    /\ packets = <<>>
    /\ mode = "none"
    /\ contract = TcpModbus
    /\ NoWindow
    /\ NoCoils

CallContract(d, P) ==
    LET out == process_P(buf, d, P, build)
        shadow == process_P(fresh, d, P, build)
    IN  /\ buf' = out.self
        /\ ret' = out.ret
        /\ locals' = out.locals
        /\ entry' = buf
        /\ data' = d
        /\ contract' = P
        /\ IF fresh_on
           THEN /\ fresh' = shadow.self
                /\ fresh_ret' = shadow.ret
                /\ fresh_on' = TRUE
           ELSE /\ fresh' = new
                /\ fresh_ret' = NoRet
                /\ fresh_on' = (out.ret.kind = "BadLength")
        /\ UNCHANGED <<build, streamVars, protoVars, coilVars>>

\* a chunk that fits, or any chunk once the buffer is full
ProcessContract ==
    \E d \in ContractChunks, P \in Contracts :
        /\ Held(buf) + Len(d) <= MaxHeld \/ Held(buf) = BUFFER_LEN
        /\ CallContract(d, P)

ProcessContractOversize ==
    \E P \in Contracts :
        /\ Held(buf) <= MaxHeld
        /\ CallContract(ContractOversize, P)

NextContract == ProcessContract \/ ProcessContractOversize

SpecContract == InitContract /\ [][NextContract]_vars

\* the last call had a whole ADU in the buffer: P::adu_length returned a
\* length that the bytes held and passed in reach
ReachedLength ==
    /\ contract.name = "Answers"
    /\ contract.adu_length.ok
    /\ Len(MidAssembly) + Len(data) >= contract.adu_length.val
    /\ ret.kind # "Panic"

\* C11: for any protocol contract, an error of the contract during process
\* (from adu_length, adu_header or pdu_body) is the error process returns;
\* when it is NotEnoughData the bytes held and passed in stay in the
\* buffer, and when it is BadLength, BadErrorCheck or BadFuncCode the
\* buffer is empty on return.
C11_ContractErrorRetainsOrEmpties ==
    /\ (contract.name = "Answers" /\ ~contract.adu_length.ok) =>
          ret.kind = contract.adu_length.err
    /\ (ReachedLength /\ ~contract.adu_header.ok) =>
          ret.kind = contract.adu_header.err
    /\ (ReachedLength /\ contract.adu_header.ok /\ ~contract.pdu_body.ok) =>
          ret.kind = contract.pdu_body.err
    /\ ret.kind = "NotEnoughData" => buffer(buf) = MidAssembly \o data
    /\ ret.kind \in ModbusError \ {"NotEnoughData"} => used(buf) = 0

\* C12: when the bytes in the buffer reach the length the contract
\* computed and its payload step fails with BadErrorCheck, process returns
\* BadErrorCheck and used() is 0 on return.
C12_BadErrorCheckDiscardsAll ==
    (/\ ReachedLength
     /\ contract.adu_header.ok
     /\ ~contract.pdu_body.ok
     /\ contract.pdu_body.err = "BadErrorCheck") =>
        (ret.kind = "BadErrorCheck" /\ used(buf) = 0)

\* C9: on every Ok return the leftover is the suffix of the input from
\* index adu_length - bytes used before the call; the input before that
\* index is what completed the returned ADU; consumed prefix and leftover
\* together are the input; and the leftover is empty exactly when the
\* input ends at the ADU boundary.  Also for chunks longer than the space
\* left in the buffer.
C9_LeftoverIsInputSuffix ==
    ret.kind = "Ok" =>
        LET adu_len == contract.adu_length.val
            idx == adu_len - Len(MidAssembly)
        IN  /\ contract.adu_length.ok
            /\ idx \in 0..Len(data)
            /\ ret.leftover = SliceFrom(data, idx)
            /\ buffer(buf) = MidAssembly \o SliceTo(data, idx)
            /\ ret.pdu = buffer(buf)
            /\ SliceTo(data, idx) \o ret.leftover = data
            /\ (ret.leftover = <<>>) <=> (Len(MidAssembly) + Len(data) = adu_len)

C9_Witness ==
    /\ ret.kind = "Ok"
    /\ ~entry.contains_complete
    /\ used(entry) > 0
    /\ used(buf) > used(entry)
    /\ Len(data) > space_left(entry)
    /\ Len(ret.leftover) >= BUFFER_LEN - 1

\* C9, an input that ends at the ADU boundary
C9_WitnessBoundary ==
    /\ ret.kind = "Ok"
    /\ ~entry.contains_complete
    /\ used(entry) > 0
    /\ data # <<>>
    /\ ret.leftover = <<>>

\* C6: after a process call has returned BadLength the framer behaves like
\* one created by new(): it enters the next call in the state new() is in,
\* and every later call returns what the same call returns on a RecvBuffer
\* created by new() at that point and passed the same chunks since, and
\* leaves the same used(), so a following whole ADU is returned whatever
\* bytes were discarded.
C6_LikeNewAfterBadLength ==
    /\ fresh_on => Entered(buf) = Entered(fresh)
    /\ (fresh_on /\ fresh_ret.kind # "None") =>
          /\ ret = fresh_ret
          /\ used(buf) = used(fresh)
          /\ buf.contains_complete = fresh.contains_complete

\* C6, bytes were held when BadLength was returned and the next call
\* returns a whole ADU
C6_Witness ==
    /\ fresh_on
    /\ entry.contains_complete
    /\ used(entry) > 0
    /\ fresh_ret.kind = "Ok"
    /\ ret.kind = "Ok"
    /\ ret.pdu = data

---------------------------------------------------------------------------
(* The functions of TcpModbus on their own: a window of bytes is drawn     *)
(* and each function is applied to it once, as the tests tcp_adu_header,   *)
(* tcp_adu_check, pdu_body and tcp_adu_bad_length do for the prefixes of   *)
(* an ADU.                                                                 *)

\* longest window drawn for every declared length
MaxWindow == 10

\* low bytes of the declared length: none, an empty payload, short
\* payloads, and the lengths around the maximum
DeclaredLow == {0, 1, 2, 3, 4, 253, 254, 255}

\* window lengths around the longest ADU
LongWindows == (ADU_MAX_LENGTH - 2)..(ADU_MAX_LENGTH + 2)

\* a window of n bytes with the declared length hi, lo; the other header
\* bytes tell their position and the bytes after the header are t
Frame(hi, lo, t, n) ==
    [i \in 1..n |-> IF i = 5 THEN hi ELSE IF i = 6 THEN lo
                    ELSE IF i <= MBAP_LENGTH THEN 16 * i ELSE t]

Windows ==
    { Frame(hi, lo, t, n) : hi \in {0, 1}, lo \in DeclaredLow, t \in {0, 255},
                            n \in 0..MaxWindow }
    \cup { Frame(0, lo, t, n) : lo \in {253, 254, 255}, t \in {0, 255},
                                n \in LongWindows }

InitProto ==
    /\ buf = new
    /\ data = <<>>
    /\ ret = NoRet
    /\ entry = new
    /\ locals = Locals(0, 0)
    /\ build = "debug"
    /\ fresh = new
    /\ fresh_ret = NoRet
    /\ fresh_on = FALSE
    /\ adus = <<>>
    /\ pos = 0
    /\ packets = <<>>
    /\ mode = "none"
    /\ contract = TcpModbus
    /\ window \in Windows
    /\ results = NoResults
    /\ NoCoils

\* a result has been returned
Applied(r) == r.ok \/ r.err # "None"

framerVars == <<buf, data, ret, entry, locals, build, fresh, fresh_ret, fresh_on,
                streamVars, contract>>

ApplyAduLength ==
    /\ ~Applied(results.adu_length)
    /\ results' = [results EXCEPT !.adu_length = adu_length(window)]
    /\ UNCHANGED <<framerVars, window, coilVars>>

ApplyAduHeader ==
    /\ ~Applied(results.adu_header)
    /\ results' = [results EXCEPT !.adu_header = adu_header(window)]
    /\ UNCHANGED <<framerVars, window, coilVars>>

ApplyAduCheck ==
    /\ ~Applied(results.adu_check)
    /\ results' = [results EXCEPT !.adu_check = adu_check(window)]
    /\ UNCHANGED <<framerVars, window, coilVars>>

ApplyPduBody ==
    /\ ~Applied(results.pdu_body)
    /\ results' = [results EXCEPT !.pdu_body = pdu_body(window)]
    /\ UNCHANGED <<framerVars, window, coilVars>>

ApplyInlineAduLength ==
    /\ ~Applied(results.inline_adu_length)
    /\ results' = [results EXCEPT !.inline_adu_length = inline_adu_length(window)]
    /\ UNCHANGED <<framerVars, window, coilVars>>

ApplyInlineAduCheck ==
    /\ ~Applied(results.inline_adu_check)
    /\ results' = [results EXCEPT !.inline_adu_check = inline_adu_check(window)]
    /\ UNCHANGED <<framerVars, window, coilVars>>

ApplyInlinePduBody ==
    /\ ~Applied(results.inline_pdu_body)
    /\ results' = [results EXCEPT !.inline_pdu_body = inline_pdu_body(window)]
    /\ UNCHANGED <<framerVars, window, coilVars>>

NextProto ==
    \/ ApplyAduLength
    \/ ApplyAduHeader
    \/ ApplyAduCheck
    \/ ApplyPduBody
    \/ ApplyInlineAduLength
    \/ ApplyInlineAduCheck
    \/ ApplyInlinePduBody

SpecProto == InitProto /\ [][NextProto]_vars

\* what the claim says adu_length returns for the window
LengthOfDeclared(r) ==
    IF Len(window) < EXCLUDED_LENGTH
    THEN ~r.ok /\ r.err = "NotEnoughData"
    ELSE IF Declared(window) + EXCLUDED_LENGTH <= ADU_MAX_LENGTH
    THEN r.ok /\ r.val = Declared(window) + EXCLUDED_LENGTH
    ELSE ~r.ok /\ r.err = "BadLength"

\* C13: adu_length returns NotEnoughData exactly for windows of fewer than
\* 6 bytes, and otherwise, for the big-endian declared length L of bytes
\* 4..5, Ok(L + 6) when L + 6 <= 260 and BadLength when it is more,
\* whatever follows the first 6 bytes; this for both adu_length functions
\* of the repository.
C13_AduLengthIsDeclaredPlusSix ==
    /\ Applied(results.adu_length) => LengthOfDeclared(results.adu_length)
    /\ Applied(results.inline_adu_length) => LengthOfDeclared(results.inline_adu_length)

\* C14: adu_header returns NotEnoughData exactly for windows of fewer than
\* 7 bytes; for any longer window it returns the big-endian transaction
\* id (bytes 0..1), protocol id (2..3), declared length (4..5) and the
\* unit id (byte 6), also when the declared length is over the maximum.
C14_AduHeaderReadsSevenBytes ==
    Applied(results.adu_header) =>
        IF Len(window) < MBAP_LENGTH
        THEN ~results.adu_header.ok /\ results.adu_header.err = "NotEnoughData"
        ELSE /\ results.adu_header.ok
             /\ results.adu_header.val = Decoded(window).header

C14_Witness ==
    /\ Applied(results.adu_header)
    /\ Len(window) >= MBAP_LENGTH
    /\ Declared(window) + EXCLUDED_LENGTH > ADU_MAX_LENGTH
    /\ results.adu_header.ok
    /\ results.adu_header.val.length = Declared(window)
    /\ results.adu_header.val.transaction_id = 16 * 256 + 32

\* the window is a prefix of a valid ADU, all of it, or it and more
OfValidADU(w) ==
    Len(w) >= EXCLUDED_LENGTH =>
        (Declared(w) >= 1 /\ Declared(w) + EXCLUDED_LENGTH <= ADU_MAX_LENGTH)

\* what the claim says adu_check returns for the window
CheckOfDeclared(r) ==
    /\ r.err # "BadErrorCheck"
    /\ (Len(window) >= EXCLUDED_LENGTH
        /\ Declared(window) + EXCLUDED_LENGTH > ADU_MAX_LENGTH) =>
            (~r.ok /\ r.err = "BadLength")
    /\ OfValidADU(window) =>
          IF Len(window) < EXCLUDED_LENGTH
                \/ Len(window) < Declared(window) + EXCLUDED_LENGTH
          THEN ~r.ok /\ r.err = "NotEnoughData"
          ELSE r.ok

\* C15: on a prefix of a valid ADU of n bytes adu_check returns
\* NotEnoughData when the prefix is shorter than n and Ok when it is the n
\* bytes (or more); it never returns BadErrorCheck, and it returns
\* BadLength when the declared length is over the maximum; this for both
\* adu_check functions of the repository.
C15_AduCheckOkFromFullLength ==
    /\ Applied(results.adu_check) => CheckOfDeclared(results.adu_check)
    /\ Applied(results.inline_adu_check) => CheckOfDeclared(results.inline_adu_check)

\* what the claim says pdu_body returns for the window, check being what
\* adu_check returns for it
BodyOfDeclared(r, check) ==
    /\ ~check.ok => (~r.ok /\ r.err = check.err)
    /\ (Len(window) >= EXCLUDED_LENGTH
        /\ Declared(window) + EXCLUDED_LENGTH > ADU_MAX_LENGTH) =>
          (~r.ok /\ r.err = "BadLength")
    /\ (OfValidADU(window) /\ ~IsWholeADU(window) /\ ~r.ok) =>
          r.err = "NotEnoughData"
    /\ (OfValidADU(window)
        /\ (Len(window) < EXCLUDED_LENGTH
            \/ Len(window) < Declared(window) + EXCLUDED_LENGTH)) =>
          ~r.ok
    /\ IsWholeADU(window) =>
          /\ r.ok
          /\ r.val = SubSeq(window, MBAP_LENGTH + 1, Len(window))
          /\ Len(r.val) = Declared(window) - 1

\* C16: pdu_body fails as adu_check fails (NotEnoughData on every proper
\* prefix of an ADU, BadLength on a declared length over the maximum), and
\* on a window that is one ADU of n bytes it returns the bytes 7..n, which
\* are the declared length less one; this for both pdu_body functions of
\* the repository.
C16_PduBodyValidatesThenSlices ==
    /\ Applied(results.pdu_body) =>
          BodyOfDeclared(results.pdu_body, adu_check(window))
    /\ Applied(results.inline_pdu_body) =>
          BodyOfDeclared(results.inline_pdu_body, inline_adu_check(window))

\* C17: the pdu_body of the TcpModbus the crate compiles never panics: on
\* every window for which adu_check returns Ok the slice data[7..] is in
\* range, and pdu_body returns an error of ModbusError or a slice, also
\* when the declared length is 0 or 1.
C17_PduBodySliceInRange ==
    /\ (Applied(results.inline_adu_check) /\ results.inline_adu_check.ok) =>
          MBAP_LENGTH <= Len(window)
    /\ Applied(results.inline_pdu_body) =>
          IF results.inline_pdu_body.ok
          THEN results.inline_pdu_body.val = SliceFrom(window, MBAP_LENGTH)
          ELSE results.inline_pdu_body.err \in ModbusError

\* C17, a window of the header alone with a declared length of 0
C17_Witness ==
    /\ Applied(results.inline_pdu_body)
    /\ Len(window) = EXCLUDED_LENGTH
    /\ Declared(window) = 0
    /\ ~results.inline_pdu_body.ok
    /\ results.inline_pdu_body.err = "NotEnoughData"

\* C17, a declared length of 0 or 1 and a window adu_check accepts
C17_WitnessSlice ==
    /\ Applied(results.inline_pdu_body)
    /\ Applied(results.inline_adu_check)
    /\ results.inline_adu_check.ok
    /\ Declared(window) \in {0, 1}
    /\ results.inline_pdu_body.ok
    /\ Len(results.inline_pdu_body.val) = Len(window) - MBAP_LENGTH

---------------------------------------------------------------------------
(* Coil packing: a sequence of coils and a destination with earlier        *)
(* contents are drawn; bytes_needed, pack_coils and unpack_coils are       *)
(* applied in turn, unpack_coils to a coil slice of the same length.       *)

\* most coils packed
MaxCoils == 9

\* longest destination
MaxBytes == 3

\* what a byte of the destination holds before pack_coils
PriorVals == {0, 170, 255}

InitCoils ==
    /\ buf = new
    /\ data = <<>>
    /\ ret = NoRet
    /\ entry = new
    /\ locals = Locals(0, 0)
    /\ build = "debug"
    /\ fresh = new
    /\ fresh_ret = NoRet
    /\ fresh_on = FALSE
    /\ adus = <<>>
    /\ pos = 0
    /\ packets = <<>>
    /\ mode = "none"
    /\ contract = TcpModbus
    /\ NoWindow
    /\ coils \in SeqsUpTo(Coil, MaxCoils)
    /\ prior \in {Fill(v, n) : v \in PriorVals, n \in 0..MaxBytes}
    /\ bytes = prior
    /\ unpacked \in {Fill(c, Len(coils)) : c \in Coil}
    /\ needed = 0
    /\ stage = "start"

\* let n = bytes_needed(coils.len())
Size ==
    /\ stage = "start"
    /\ needed' = bytes_needed(Len(coils))
    /\ stage' = "sized"
    /\ UNCHANGED <<framerVars, protoVars, coils, prior, bytes, unpacked>>

\* pack_coils(&coils, &mut bytes)
Pack ==
    /\ stage = "sized"
    /\ LET w == pack_coils(coils, bytes)
       IN  /\ bytes' = w.bytes
           /\ stage' = IF w.panic THEN "panic" ELSE "packed"
    /\ UNCHANGED <<framerVars, protoVars, coils, prior, unpacked, needed>>

\* unpack_coils(&bytes, &mut unpacked)
Unpack ==
    /\ stage = "packed"
    /\ LET r == unpack_coils(bytes, unpacked)
       IN  /\ unpacked' = r.coils
           /\ stage' = IF r.panic THEN "panic" ELSE "unpacked"
    /\ UNCHANGED <<framerVars, protoVars, coils, prior, bytes, needed>>

NextCoils == Size \/ Pack \/ Unpack

SpecCoils == InitCoils /\ [][NextCoils]_vars

\* the least number of bytes of 8 bits that hold n bits
Ceil8(n) == IF n = 0 THEN 0 ELSE (n - 1) \div 8 + 1

\* C18: bytes_needed(N) is N / 8 rounded up: 0 for no coils and
\* floor((N - 1) / 8) + 1 otherwise, so the bytes hold the N coils and one
\* byte fewer would not.
C18_BytesNeededRoundsUp ==
    stage \in {"sized", "packed", "unpacked", "panic"} =>
        /\ needed = Ceil8(Len(coils))
        /\ needed * 8 >= Len(coils)
        /\ Len(coils) > 0 => (needed - 1) * 8 < Len(coils)

C18_Witness ==
    /\ stage = "sized"
    /\ Len(coils) = COILS_PER_BYTE + 1
    /\ needed = 2

\* C18, a full byte
C18_WitnessFull ==
    /\ stage = "sized"
    /\ Len(coils) = COILS_PER_BYTE
    /\ needed = 1

\* bit k of a byte is set
Bit(byte, k) == (byte \div (2 ^ k)) % 2 = 1

\* C19: after pack_coils into a destination of at least bytes_needed(N)
\* bytes with any earlier contents, coil i is bit (i mod 8) of byte
\* (i div 8), least significant bit first, and unpack_coils into N coils
\* gives back the coils that were packed.
C19_UnpackInvertsPack ==
    /\ stage \in {"packed", "unpacked"} =>
          \A i \in 0..(Len(coils) - 1) :
              Bit(bytes[i \div 8 + 1], i % 8) <=> (coils[i + 1] = "On")
    /\ stage = "unpacked" => unpacked = coils
    /\ stage = "panic" => Len(prior) < Ceil8(Len(coils))

C19_Witness ==
    /\ stage = "unpacked"
    /\ Len(coils) > COILS_PER_BYTE
    /\ prior[1] = 255
    /\ coils[1] = "Off"
    /\ coils[2] = "On"
    /\ coils[Len(coils)] = "On"
    /\ unpacked = coils

\* the byte that holds coils 8j .. 8j + 7 of cs and nothing else, from
\* bit k on
RECURSIVE PackedByte(_, _, _)
PackedByte(cs, j, k) ==
    IF k >= 8 THEN 0
    ELSE (IF 8 * j + k < Len(cs) /\ cs[8 * j + k + 1] = "On" THEN 2 ^ k ELSE 0)
         + PackedByte(cs, j, k + 1)

\* C20: pack_coils of N coils leaves every byte from index
\* bytes_needed(N) on as it was (for no coils, every byte), and the bytes
\* before that depend on the coils alone: each holds its coils and zeros
\* in the bits above the last coil, whatever the destination held.
C20_PackWritesOnlyNeededBytes ==
    stage \in {"packed", "unpacked"} =>
        /\ Len(bytes) = Len(prior)
        /\ \A j \in 0..(Len(bytes) - 1) :
              IF j >= Ceil8(Len(coils))
              THEN bytes[j + 1] = prior[j + 1]
              ELSE bytes[j + 1] = PackedByte(coils, j, 0)
        /\ Len(coils) % 8 # 0 =>
              bytes[Ceil8(Len(coils))] < 2 ^ (Len(coils) % 8)

C20_Witness ==
    /\ stage = "packed"
    /\ Len(coils) % 8 = 1
    /\ coils[Len(coils)] = "On"
    /\ Len(prior) > Ceil8(Len(coils))
    /\ prior[1] = 255
    /\ bytes[Ceil8(Len(coils))] = 1
    /\ bytes[Len(bytes)] = 255

\* C20, no coils
C20_WitnessNone ==
    /\ stage = "packed"
    /\ coils = <<>>
    /\ bytes = <<170, 170, 170>>

---------------------------------------------------------------------------
(* RecvBuffer<TcpModbus>: the arithmetic and the assertions inside process *)

\* the last call came to the complete-ADU branch: space_left let the call
\* go on and the bytes in the buffer after add_data reach the length
\* P::adu_length returned for them
InCompleteBranch ==
    /\ ret.kind # "None"
    /\ space_left_debug_assert(AfterEntry) \/ build = "release"
    /\ P_adu_length(contract, buffer(AfterAdd)).ok
    /\ used(AfterAdd) >= P_adu_length(contract, buffer(AfterAdd)).val

\* C21: in process the subtraction adu_length - original_buffer_size does
\* not underflow and remaining_data_index is no more than the length of
\* the input: in the complete-ADU branch the bytes in use before the call
\* are at most the ADU length, which is at most those bytes plus the
\* input, and neither the subtraction nor the slice of the input panics.
C21_RemainingDataIndexInRange ==
    InCompleteBranch =>
        LET adu_len == P_adu_length(contract, buffer(AfterAdd)).val
        IN  /\ locals.original_buffer_size = used(AfterEntry)
            /\ locals.original_buffer_size <= adu_len
            /\ adu_len <= locals.original_buffer_size + Len(data)
            /\ ret.kind # "Panic"

\* C21, bytes were in use before the call and the input goes on past the
\* ADU: remaining_data_index is inside the input
C21_Witness ==
    /\ InCompleteBranch
    /\ locals.original_buffer_size > 0
    /\ P_adu_length(contract, buffer(AfterAdd)).val
          < locals.original_buffer_size + Len(data)

\* C21, the input ends where the ADU ends: remaining_data_index is the
\* length of the input
C21_WitnessBoundary ==
    /\ InCompleteBranch
    /\ locals.original_buffer_size > 0
    /\ data # <<>>
    /\ P_adu_length(contract, buffer(AfterAdd)).val
          = locals.original_buffer_size + Len(data)

\* C25: the loop that passes the leftover of an Ok return in again
\* terminates: every Ok return for an input that is not empty has a
\* leftover shorter than the input, because in the complete-ADU branch
\* the ADU length is more than the bytes in the buffer before the call
\* (remaining_data_index is at least 1); and a call that does not return
\* Ok returns an error or panics, which ends the loop.
C25_DrainLoopTerminates ==
    /\ (ret.kind = "Ok" /\ data # <<>>) => Len(ret.leftover) < Len(data)
    /\ InCompleteBranch =>
          /\ locals.original_buffer_size
                < P_adu_length(contract, buffer(AfterAdd)).val
          /\ Len(SliceFrom(data, P_adu_length(contract, buffer(AfterAdd)).val
                                   - locals.original_buffer_size)) < Len(data)
    /\ (ret.kind # "None" /\ ret.kind # "Ok") =>
          ret.kind \in ModbusError \cup {"Panic"}

\* C25, an input that holds a whole ADU and the start of the next
C25_Witness ==
    /\ InCompleteBranch
    /\ ~entry.contains_complete
    /\ Len(data) > P_adu_length(contract, buffer(AfterAdd)).val
    /\ ret.kind = "NotEnoughData"

\* C22: the debug assertions of RecvBuffer<TcpModbus> hold in every call:
\* when space_left runs size_used is less than the capacity (a buffer with
\* a message mid-assembly is never full), and when trim_to(length) runs
\* length <= size_used <= capacity.
C22_DebugAssertionsHold ==
    /\ ret.kind # "None" => space_left_debug_assert(AfterEntry)
    /\ ~buf.contains_complete => space_left_debug_assert(buf)
    /\ (ret.kind # "None" /\ buf.contains_complete) =>
          /\ locals.length_to_add <= Len(data)
          /\ trim_to_debug_assert(AfterAdd, used(buf))

\* C23: whenever process returns NotEnoughData the whole input was taken
\* into the buffer: the bytes appended are len(input), none cut off by
\* min(space_left, len), and used() afterwards is the bytes mid-assembly
\* before the call plus len(input).
C23_NotEnoughDataAbsorbsInput ==
    ret.kind = "NotEnoughData" =>
        /\ locals.length_to_add = Len(data)
        /\ used(buf) = locals.original_buffer_size + Len(data)
        /\ used(buf) = Len(MidAssembly) + Len(data)

\* the bytes in the buffer of the last call reach the ADU length computed
\* from them
ReachedAduLength ==
    /\ ret.kind # "None"
    /\ P_adu_length(TcpModbus, buffer(AfterAdd)).ok
    /\ used(AfterAdd) >= P_adu_length(TcpModbus, buffer(AfterAdd)).val

\* C24: process returns Ok exactly when the bytes in the buffer reach the
\* computed ADU length, also for a declared length of 0: it never returns
\* NotEnoughData with the complete flag set, and the input bytes after the
\* ADU are not lost: they are in the leftover or still in the buffer.
C24_OkExactlyAtAduLength ==
    /\ ret.kind # "None" => (ret.kind = "Ok" <=> ReachedAduLength)
    /\ ~(ret.kind = "NotEnoughData" /\ buf.contains_complete)
    /\ ReachedAduLength =>
          buffer(buf) \o ret.leftover = MidAssembly \o data

=============================================================================
